---- MODULE Spec2Model ----
(***************************************************************************)
(* Model of idtxl/stats.py: the permutation-based significance tests       *)
(* (omnibus_test, max_statistic, min_statistic, max_statistic_sequential)  *)
(* and the p-value computation _find_pvalue.                               *)
(*                                                                         *)
(* Statistics (estimator outputs) are small naturals.  A p-value is the    *)
(* quotient of two naturals; it is kept as a fraction in lowest terms, so  *)
(* that two p-values are the same number exactly when they are the same    *)
(* record.                                                                 *)
(***************************************************************************)
EXTENDS Integers, Sequences, FiniteSets, TLC

\* ---------------------------------------------------------------- bounds
MaxVal == 2
MaxLen == 4
MaxCand == 3
MaxPerm == 2
\* the surrogate table has at most MaxCells cells, counted once for every
\* replication of the data
MaxCells == 6
\* rows of a realisations array, and the largest integer perm_range
MaxRows == 7
MaxRange == 4
\* replications in a replication index
MaxRepl == 3
\* elements of a flattened array that is not a vector
MaxFlat == 2
\* nodes of the network a results object stands for
MaxNodes == 2
\* two-valued null distributions have at most MaxSteps entries
MaxSteps == 21

Values == 0..MaxVal

\* ------------------------------------------------------------- rationals
RECURSIVE GCD(_, _)
GCD(a, b) == IF b = 0 THEN a ELSE GCD(b, a % b)

\* a / b for b > 0 (Python true division of two non-negative counts)
TrueDiv(a, b) == LET g == GCD(a, b) IN [num |-> a \div g, den |-> b \div g]

RatLess(p, q) == p.num * q.den < q.num * p.den

\* builtin min(a, b): the first argument unless the second is smaller
PyMin(a, b) == IF RatLess(b, a) THEN b ELSE a

\* variant: alpha=0.1
AlphaOneInTen == [num |-> 1, den |-> 10]

\* alpha=0.05, the default of _find_pvalue
DefaultAlpha == [num |-> 1, den |-> 20]

\* ------------------------------------------------------------ _find_pvalue
\* the boolean masks  distribution > statistic  and  distribution < statistic
\* variant: ties counted as exceeding
MaskGreaterOrEqual(distribution, statistic) ==
    [i \in 1..Len(distribution) |-> distribution[i] >= statistic]

MaskGreater(distribution, statistic) ==
    [i \in 1..Len(distribution) |-> distribution[i] > statistic]

\* variant: ties counted as falling below
MaskSmallerOrEqual(distribution, statistic) ==
    [i \in 1..Len(distribution) |-> distribution[i] <= statistic]

MaskSmaller(distribution, statistic) ==
    [i \in 1..Len(distribution) |-> distribution[i] < statistic]

\* builtin sum() over a boolean mask
RECURSIVE PySum(_)
PySum(mask) == IF mask = <<>> THEN 0
               ELSE (IF Head(mask) THEN 1 ELSE 0) + PySum(Tail(mask))

\* variant: the lower tail
PvalueLowerTail(statistic, distribution) ==
    TrueDiv(PySum(MaskSmaller(distribution, statistic)), Len(distribution))

PvalueOneTail(statistic, distribution) ==
    TrueDiv(PySum(MaskGreater(distribution, statistic)), Len(distribution))

\* variant: the smaller tail doubled
PvalueTwoTailDoubled(statistic, distribution) ==
    LET n_bigger  == PySum(MaskGreater(distribution, statistic))
        n_smaller == PySum(MaskSmaller(distribution, statistic))
    IN  TrueDiv(2 * (IF n_smaller < n_bigger THEN n_smaller ELSE n_bigger),
                Len(distribution))

PvalueTwoTail(statistic, distribution) ==
    LET p_bigger  == TrueDiv(PySum(MaskGreater(distribution, statistic)),
                             Len(distribution))
        p_smaller == TrueDiv(PySum(MaskSmaller(distribution, statistic)),
                             Len(distribution))
    IN  PyMin(p_bigger, p_smaller)

\* variant: pvalue <= alpha
SignificanceInclusive(pvalue, alpha) == ~RatLess(alpha, pvalue)

SignificanceOf(pvalue, alpha) == RatLess(pvalue, alpha)

\* A numpy array as _find_pvalue sees it: its number of dimensions and its
\* elements (flattened when it is not a vector).
NdArray(ndim, data) == [ndim |-> ndim, data |-> data]

Vector(data) == NdArray(1, data)

\* variant: no check of the dimension
AssertAnyDimension(distribution) == TRUE

\* line 341: assert(distribution.ndim == 1)
AssertOneDimensional(distribution) == distribution.ndim = 1

NoPvalue == [num |-> 0, den |-> 0]

\* What a call that raised leaves behind: no significance, no p-value.
Raised(error) == [raised |-> error, significance |-> FALSE,
                  pvalue |-> NoPvalue]

\* _find_pvalue(statistic, distribution, alpha, tail), lines 328-349.  The
\* only check is the assert on ndim; an empty vector gets past it and the
\* quotient of line 343 or 345 divides by distribution.shape[0] = 0.
_find_pvalue(statistic, distribution, alpha, tail) ==
    IF ~AssertOneDimensional(distribution)
    THEN Raised("AssertionError")
    ELSE IF Len(distribution.data) = 0
    THEN Raised("ZeroDivisionError")
    ELSE LET pvalue == IF tail = "one"
                       THEN PvalueOneTail(statistic, distribution.data)
                       ELSE PvalueTwoTail(statistic, distribution.data)
         IN [raised |-> "none",
             significance |-> SignificanceOf(pvalue, alpha),
             pvalue |-> pvalue]

\* ------------------------------------------------------- order statistics
Column(table, j) == [i \in 1..Len(table) |-> table[i][j]]

\* np.max / np.min of a non-empty vector
RECURSIVE ReduceMax(_)
ReduceMax(v) == IF Len(v) = 1 THEN v[1]
                ELSE LET m == ReduceMax(Tail(v))
                     IN IF v[1] > m THEN v[1] ELSE m

RECURSIVE ReduceMin(_)
ReduceMin(v) == IF Len(v) = 1 THEN v[1]
                ELSE LET m == ReduceMin(Tail(v))
                     IN IF v[1] < m THEN v[1] ELSE m

\* table.shape[1]
NCols(table) == IF table = <<>> THEN 0 ELSE Len(table[1])

\* variant: the first row of the table
FindTableFirstRow(table) == table[1]

\* np.max(table, axis=0) and np.min(table, axis=0) of a table with at least
\* one row
_find_table_max(table) ==
    [j \in 1..NCols(table) |-> ReduceMax(Column(table, j))]

\* variant: the largest value of the whole table, for every column
FindTableLargest(table) ==
    [j \in 1..NCols(table) |->
        ReduceMax([l \in 1..NCols(table) |-> ReduceMax(Column(table, l))])]

_find_table_min(table) ==
    [j \in 1..NCols(table) |-> ReduceMin(Column(table, j))]

\* ndarray.sort(): ascending, by insertion
RECURSIVE InsertSorted(_, _)
InsertSorted(x, v) ==
    IF v = <<>> THEN <<x>>
    ELSE IF x <= Head(v) THEN <<x>> \o v
    ELSE <<Head(v)>> \o InsertSorted(x, Tail(v))

RECURSIVE SortAscending(_)
SortAscending(v) == IF v = <<>> THEN <<>>
                    ELSE InsertSorted(Head(v), SortAscending(Tail(v)))

\* variant: the columns are left as they are
TableAsGiven(table) == table

\* _sort_table_max, lines 262-266: every column sorted ascending.  The sort
\* is table[:, permutation].sort() on a view of the argument, and the
\* argument itself is returned.
_sort_table_max(table) ==
    [i \in 1..Len(table) |->
        [j \in 1..NCols(table) |-> SortAscending(Column(table, j))[i]]]

\* np.argsort(a): the index arrays (0-based indices, as in the code) that
\* list the entries of a in ascending order.  The default sort kind
\* promises no order among equal entries, so every such array is possible.
ArgSorts(a) ==
    {o \in [1..Len(a) -> 0..(Len(a) - 1)] :
        /\ \A j, k \in 1..Len(a) : j # k => o[j] # o[k]
        /\ \A k \in 1..(Len(a) - 1) : a[o[k] + 1] <= a[o[k + 1] + 1]}

\* fancy indexing  array[index_array]  with 0-based indices
TakeByIndex(array, index_array) ==
    [j \in 1..Len(index_array) |-> array[index_array[j] + 1]]

\* np.zeros(n) of floats and of booleans
ZeroPvalue == [num |-> 0, den |-> 1]
\* variant: one entry more
ZerosOneMore(n) == [k \in 1..(n + 1) |-> 0]
Zeros(n) == [k \in 1..n |-> 0]
\* variant: np.ones(n)
OnesPvalue(n) == [k \in 1..n |-> [num |-> 1, den |-> 1]]
ZerosPvalue(n) == [k \in 1..n |-> ZeroPvalue]
\* variant: np.ones(n).astype(bool)
OnesBool(n) == [k \in 1..n |-> TRUE]
ZerosBool(n) == [k \in 1..n |-> FALSE]
\* variant: as many columns as rows
ZerosTableSquare(n, m) == [i \in 1..n |-> Zeros(n)]

\* np.zeros((n, m))
ZerosTable(n, m) == [i \in 1..n |-> Zeros(m)]

\* ------------------------------------------------------------------ state
VARIABLES
    pc,                 \* position of the running call
    proc,               \* the test procedure that was called
    pv_distribution,    \* _find_pvalue called directly: the distribution
    pv_ndim,            \*   and its number of dimensions
    pv_call,            \*   the latest call and its result
    pv_previous,        \*   the call before it
    candidate_set,      \* candidate_set / analysis_setup.conditional_full
    te_candidate,       \* te_max_candidate / te_min_candidate / te_orig
    n_permutations,
    conditional_te,     \* conditional_te, sorted in place at line 135
    conditional_order,
    stats_table,
    idx_c,
    perm,
    distribution,       \* surr_distribution / max_distribution / min_distribution
    significance,
    pvalue,
    c,
    ret,                \* what the call returned
    evaluated,          \* history: the ranks given to _find_pvalue, in order
    n_estimate,         \* history: calls of _cmi_estimator.estimate
    n_permute,          \* history: surrogate data sets drawn
    n_tables,           \* history: calls of _create_surrogate_table
    n_replications,     \* data.n_replications
    estimate_call,      \* history: the arguments of the latest estimate
                        \*   call that returned
    n_permute_data,     \* history: calls of data.permute_data
    n_permute_realisations, \* history: calls of _permute_realisations
    cell_results,       \* history: what the estimate calls of the running
                        \*   _create_surrogate_table call returned, in order
    realisations,       \* _permute_realisations: the array passed in
    replication_idx,    \*   the replication index passed in
    perm_range,         \*   'max' or an integer
    given,              \*   history: the two arrays as they were at the call
    realisations_perm,  \*   the array that is permuted and returned
    copied,             \*   whether realisations_perm is an object of its own
    perm_mask,          \*   perm, the permutation of positions (0-based)
    offset_i,           \*   i, the offset of the next block
    block_p,            \*   p, the number of the next block
    replication,
    permuted,           \*   what the call returned
    n_nodes,            \* Results: data_properties.n_nodes
    settings,           \*   self.settings
    single_target,      \*   self.single_target / self.single_process
    targets_analysed,   \*   self._processes_analysed
    fdr_correction,     \*   self.fdr_correction
    r_partial,          \*   combine_results: r, the partial results object
                        \*   the loop is at, or was at last
    idx_p,              \*   position in the processes of the current one
    res_call            \*   the latest call and how it ended

pvVars == <<pv_distribution, pv_ndim, pv_call, pv_previous>>

procVars == <<proc, candidate_set, te_candidate, n_permutations,
              conditional_te, conditional_order, stats_table, idx_c, perm,
              distribution, significance, pvalue, c, ret, evaluated,
              n_estimate, n_permute, n_tables, n_replications, estimate_call,
              n_permute_data, n_permute_realisations, cell_results>>

permVars == <<realisations, replication_idx, perm_range, given,
              realisations_perm, copied, perm_mask, offset_i, block_p,
              replication, permuted>>

resVars == <<n_nodes, settings, single_target, targets_analysed,
             fdr_correction, r_partial, idx_p, res_call>>

vars == <<pc, pvVars, procVars, permVars, resVars>>

\* what the actions of one machine leave alone
notPvVars == <<procVars, permVars, resVars>>
notProcVars == <<pvVars, permVars, resVars>>
notPermVars == <<pvVars, procVars, resVars>>
notResVars == <<pvVars, procVars, permVars>>

Procedures == {"omnibus_test", "max_statistic", "min_statistic",
               "max_statistic_sequential"}

TakesStatistic == {"max_statistic", "min_statistic"}

Tails == {"one", "two"}

\* alpha levels given to _find_pvalue when it is called directly
Alphas == {DefaultAlpha, [num |-> 1, den |-> 2]}

\* the lists of candidates 1..n
CandidateSets == {[i \in 1..n |-> i] : n \in 0..MaxCand}

Distributions == UNION {[1..n -> Values] : n \in 0..MaxLen}

\* Longer null distributions, of two values: k entries MaxVal, then zeros
StepDistributions ==
    UNION {{[j \in 1..n |-> IF j <= k THEN MaxVal ELSE 0] : k \in 0..n} :
              n \in (MaxLen + 1)..MaxSteps}

\* Arrays that are not vectors: a 0-dimensional array holds one element, a
\* 2-dimensional one of shape (1, n) holds n.
OtherDimensions == {0, 2}

FlatDistributions(ndim) ==
    IF ndim = 0 THEN [1..1 -> Values]
    ELSE UNION {[1..n -> Values] : n \in 0..MaxFlat}

NoCall == [called |-> FALSE]
NoReturn == [kind |-> "none"]

\* The procedures catch nothing: an exception raised below them leaves the
\* call with that exception and without a return value.
Propagated(error) == [kind |-> "raised", error |-> error]

\* Whatever analysis_setup._cmi_estimator.estimate raises
EstimatorError == "EstimatorError"

\* variant: the failure is caught and the procedure goes on where it was
AfterEstimatorErrorContinue(position) == position

\* The estimate calls (lines 42, 62, 128, 238) stand in no try block:
\* control leaves the procedure.
AfterEstimatorError(position) == "raised"

\* variant: also for a single replication
PermuteOverReplicationsFromOne(replications) == replications >= 1

\* lines 49-52 and 215-218: if data.n_replications > 1
permute_over_replications(replications) == replications > 1

\* lines 54-61 and 228-237: where a surrogate's realisations come from
SurrogateSource(replications) ==
    IF permute_over_replications(replications) THEN "permute_data"
    ELSE "_permute_realisations"

\* lines 54-61 and 228-237: one surrogate is drawn
DrawSurrogate ==
    /\ n_permute' = n_permute + 1
    /\ IF SurrogateSource(n_replications) = "permute_data"
       THEN /\ n_permute_data' = n_permute_data + 1
            /\ UNCHANGED n_permute_realisations
       ELSE /\ n_permute_realisations' = n_permute_realisations + 1
            /\ UNCHANGED n_permute_data

\* no candidate: the sources jointly, or nothing removed
NoCandidate == -1

\* variant: the candidate is taken out of the conditioning set
ConditionalWithoutCandidate(candidate) ==
    [name |-> "temp_cond", removed |-> candidate]

\* line 241: analysis_setup._conditional_realisations, whatever the candidate
ConditionalOfSurrogate(candidate) ==
    [name |-> "_conditional_realisations", removed |-> NoCandidate]

\* One estimate call: what its first argument is made of (a candidate by its
\* position in the list, or the sources jointly), how that was shuffled and
\* with whose replication index, and the conditional.
EstimateCall(kind, candidate, permutation, shuffle, conditional) ==
    [called |-> TRUE,
     kind |-> kind, candidate |-> candidate, perm |-> permutation,
     shuffle |-> shuffle,
     repl_idx |-> IF shuffle = "_permute_realisations" THEN candidate
                  ELSE NoCandidate,
     current_value |-> "_current_value_realisations",
     conditional |-> conditional]

\* omnibus_test, lines 42-45 and 62-65
OmnibusConditional ==
    [name |-> "cond_target_realisations", removed |-> NoCandidate]

\* max_statistic_sequential, lines 125-131: temp_cond of _remove_realisation
LeaveOneOutConditional(candidate) ==
    [name |-> "temp_cond", removed |-> candidate]

\* variant: every cell is written to row 0
WriteCellFirstRow(table, row, col, value) ==
    [table EXCEPT ![1][col + 1] = value]

\* line 238: stats_table[idx_c, perm] = ...
WriteCell(table, row, col, value) ==
    [table EXCEPT ![row + 1][col + 1] = value]

\* An estimate call that raises
EstimateRaises ==
    /\ pc' = AfterEstimatorError(pc)
    /\ ret' = Propagated(EstimatorError)

ProcIdle ==
    /\ proc = "none"
    /\ candidate_set = <<>>
    /\ te_candidate = 0
    /\ n_permutations = 0
    /\ conditional_te = <<>>
    /\ conditional_order = <<>>
    /\ stats_table = <<>>
    /\ idx_c = 0
    /\ perm = 0
    /\ distribution = <<>>
    /\ significance = <<>>
    /\ pvalue = <<>>
    /\ c = 0
    /\ ret = NoReturn
    /\ evaluated = <<>>
    /\ n_estimate = 0
    /\ n_permute = 0
    /\ n_tables = 0
    /\ n_replications = 0
    /\ estimate_call = NoCall
    /\ n_permute_data = 0
    /\ n_permute_realisations = 0
    /\ cell_results = <<>>

PvIdle ==
    /\ pv_distribution = <<>>
    /\ pv_ndim = 1
    /\ pv_call = NoCall
    /\ pv_previous = NoCall

PermIdle ==
    /\ realisations = <<>>
    /\ replication_idx = <<>>
    /\ perm_range = [type |-> "str", int |-> 0]
    /\ given = <<>>
    /\ realisations_perm = <<>>
    /\ copied = FALSE
    /\ perm_mask = <<>>
    /\ offset_i = 0
    /\ block_p = 0
    /\ replication = 0
    /\ permuted = NoReturn

\* A dict with string keys is a function on its keys.
EmptyDict == [k \in {} |-> "None"]

\* no partial results object: an object without attributes
NoPartial == EmptyDict

ResIdle ==
    /\ n_nodes = 0
    /\ settings = EmptyDict
    /\ single_target = <<>>
    /\ targets_analysed = <<>>
    /\ fdr_correction = {}
    /\ r_partial = NoPartial
    /\ idx_p = 0
    /\ res_call = NoCall

\* ------------------------------------------- _find_pvalue called directly
InitPvalue ==
    /\ pc = "pvalue"
    /\ \/ /\ pv_ndim = 1
          /\ pv_distribution \in Distributions \cup StepDistributions
       \/ /\ pv_ndim \in OtherDimensions
          /\ pv_distribution \in FlatDistributions(pv_ndim)
    /\ pv_call = NoCall
    /\ pv_previous = NoCall
    /\ ProcIdle
    /\ PermIdle
    /\ ResIdle

CallFindPvalue ==
    /\ pc = "pvalue"
    /\ \E statistic \in Values, alpha \in Alphas, tail \in Tails :
          pv_call' = [called |-> TRUE, statistic |-> statistic,
                      alpha |-> alpha, tail |-> tail,
                      out |-> _find_pvalue(statistic,
                                           NdArray(pv_ndim, pv_distribution),
                                           alpha, tail)]
    /\ pv_previous' = pv_call
    /\ UNCHANGED <<pc, pv_distribution, pv_ndim, notPvVars>>

\* ------------------------------------------------------ the test procedures
InitProc ==
    /\ pc = "start"
    /\ proc \in Procedures
    /\ candidate_set \in (IF proc = "omnibus_test" THEN {<<>>}
                          ELSE CandidateSets)
    /\ te_candidate \in (IF proc \in TakesStatistic THEN Values ELSE {0})
    /\ n_permutations \in 0..MaxPerm
    /\ n_replications \in 1..MaxRepl
    /\ Len(candidate_set) * n_permutations * n_replications <= MaxCells
    /\ conditional_te = <<>>
    /\ conditional_order = <<>>
    /\ stats_table = <<>>
    /\ idx_c = 0
    /\ perm = 0
    /\ distribution = <<>>
    /\ significance = <<>>
    /\ pvalue = <<>>
    /\ c = 0
    /\ ret = NoReturn
    /\ evaluated = <<>>
    /\ n_estimate = 0
    /\ n_permute = 0
    /\ n_tables = 0
    /\ estimate_call = NoCall
    /\ n_permute_data = 0
    /\ n_permute_realisations = 0
    /\ cell_results = <<>>
    /\ PvIdle
    /\ PermIdle
    /\ ResIdle

\* [significance, pvalue] = _find_pvalue(statistic, distribution); return
\* significance, pvalue
ReturnFindPvalue(statistic, null_distribution) ==
    LET out == _find_pvalue(statistic, Vector(null_distribution),
                            DefaultAlpha, "one")
    IN  IF out.raised # "none"
        THEN /\ pc' = "raised"
             /\ ret' = Propagated(out.raised)
             /\ UNCHANGED <<significance, pvalue>>
        ELSE /\ significance' = out.significance
             /\ pvalue' = out.pvalue
             /\ ret' = [kind |-> "pair", significance |-> out.significance,
                        pvalue |-> out.pvalue]
             /\ pc' = "done"

\* omnibus_test, lines 40-51: the observed statistic
OmnibusStart ==
    /\ pc = "start"
    /\ proc = "omnibus_test"
    /\ \/ /\ \E te_orig \in Values :
                /\ te_candidate' = te_orig
                /\ estimate_call' =
                       EstimateCall("observed", NoCandidate, NoCandidate,
                                    "none", OmnibusConditional)
          /\ distribution' = Zeros(n_permutations)
          /\ perm' = 0
          /\ pc' = "omnibus_loop"
          /\ UNCHANGED ret
       \/ /\ EstimateRaises
          /\ UNCHANGED <<te_candidate, distribution, perm, estimate_call>>
    /\ n_estimate' = n_estimate + 1
    /\ UNCHANGED <<proc, candidate_set, n_permutations, conditional_te,
                   conditional_order, stats_table, idx_c, significance,
                   pvalue, c, evaluated, n_permute, n_tables,
                   n_replications,
                   cell_results, n_permute_data,
                   n_permute_realisations, notProcVars>>

\* omnibus_test, lines 53-65: one surrogate value
OmnibusSurrogate ==
    /\ pc = "omnibus_loop"
    /\ perm < n_permutations
    /\ \/ /\ \E te_surr \in Values :
                /\ distribution' = [distribution EXCEPT
                                        ![perm + 1] = te_surr]
                /\ estimate_call' =
                       EstimateCall("surrogate", NoCandidate, perm,
                                    SurrogateSource(n_replications),
                                    OmnibusConditional)
          /\ perm' = perm + 1
          /\ UNCHANGED <<pc, ret>>
       \/ /\ EstimateRaises
          /\ UNCHANGED <<distribution, perm, estimate_call>>
    /\ DrawSurrogate
    /\ n_estimate' = n_estimate + 1
    /\ UNCHANGED <<proc, candidate_set, te_candidate, n_permutations,
                   conditional_te, conditional_order, stats_table, idx_c,
                   significance, pvalue, c, evaluated, n_tables,
                   n_replications,
                   cell_results, notProcVars>>

\* omnibus_test, lines 66-67
OmnibusReturn ==
    /\ pc = "omnibus_loop"
    /\ perm = n_permutations
    /\ ReturnFindPvalue(te_candidate, distribution)
    /\ UNCHANGED <<proc, candidate_set, te_candidate, n_permutations,
                   conditional_te, conditional_order, stats_table, idx_c,
                   perm, distribution, c, evaluated, n_estimate, n_permute,
                   n_tables, n_replications, estimate_call,
                   cell_results, n_permute_data,
                   n_permute_realisations, notProcVars>>

\* variant: "return False"
ShortCircuitFalse == [kind |-> "bare", significance |-> FALSE]

\* "if not test_set: return True"
ShortCircuitReturn == [kind |-> "bare", significance |-> TRUE]

\* _create_surrogate_table, lines 212-218: the table of zeros
EnterCreateSurrogateTable ==
    /\ stats_table' = ZerosTable(Len(candidate_set), n_permutations)
    /\ idx_c' = 0
    /\ perm' = 0
    /\ n_tables' = n_tables + 1
    /\ cell_results' = <<>>
    /\ pc' = "table"

\* max_statistic / min_statistic up to the call of _create_surrogate_table
ExtremeStatisticStart ==
    /\ pc = "start"
    /\ IF Len(candidate_set) = 0
       THEN /\ ret' = ShortCircuitReturn
            /\ pc' = "done"
            /\ UNCHANGED <<stats_table, idx_c, perm, n_tables,
                           cell_results>>
       ELSE /\ EnterCreateSurrogateTable
            /\ UNCHANGED ret
    /\ UNCHANGED <<proc, candidate_set, te_candidate, n_permutations,
                   conditional_te, conditional_order, distribution,
                   significance, pvalue, c, evaluated, n_estimate, n_permute,
                   n_replications, estimate_call,
                   n_permute_data,
                   n_permute_realisations, notProcVars>>

MaxStatisticStart ==
    /\ proc = "max_statistic"
    /\ ExtremeStatisticStart

MinStatisticStart ==
    /\ proc = "min_statistic"
    /\ ExtremeStatisticStart

\* _create_surrogate_table, lines 227-241: one cell
CreateSurrogateCell ==
    /\ pc = "table"
    /\ idx_c < Len(candidate_set)
    /\ perm < n_permutations
    /\ \/ /\ \E te_surr \in Values :
                /\ stats_table' = WriteCell(stats_table, idx_c, perm,
                                            te_surr)
                /\ estimate_call' =
                       EstimateCall("surrogate", idx_c, perm,
                                    SurrogateSource(n_replications),
                                    ConditionalOfSurrogate(idx_c))
                /\ cell_results' = Append(cell_results,
                       [candidate |-> idx_c, perm |-> perm,
                        value |-> te_surr])
          /\ perm' = perm + 1
          /\ UNCHANGED <<pc, ret>>
       \/ /\ EstimateRaises
          /\ UNCHANGED <<stats_table, perm, estimate_call, cell_results>>
    /\ DrawSurrogate
    /\ n_estimate' = n_estimate + 1
    /\ UNCHANGED <<proc, candidate_set, te_candidate, n_permutations,
                   conditional_te, conditional_order, idx_c, distribution,
                   significance, pvalue, c, evaluated, n_tables,
                   n_replications,
                   notProcVars>>

\* _create_surrogate_table, lines 222, 247: on to the next candidate
CreateSurrogateNextCandidate ==
    /\ pc = "table"
    /\ idx_c < Len(candidate_set)
    /\ perm = n_permutations
    /\ idx_c' = idx_c + 1
    /\ perm' = 0
    /\ UNCHANGED <<pc, proc, candidate_set, te_candidate, n_permutations,
                   conditional_te, conditional_order, stats_table,
                   distribution, significance, pvalue, c, ret, evaluated,
                   n_estimate, n_permute, n_tables, n_replications,
                   estimate_call,
                   cell_results, n_permute_data,
                   n_permute_realisations, notProcVars>>

\* variant: the table is returned after its first row
TableReturnedAfterFirstRow ==
    /\ pc = "table"
    /\ idx_c >= 1 \/ idx_c = Len(candidate_set)

\* _create_surrogate_table, line 249: the loop over the candidates is over
TableReturned ==
    /\ pc = "table"
    /\ idx_c = Len(candidate_set)

\* max_statistic, lines 95-99
MaxStatisticFinish ==
    /\ proc = "max_statistic"
    /\ TableReturned
    /\ distribution' = _find_table_max(stats_table)
    /\ cell_results' = <<>>
    /\ ReturnFindPvalue(te_candidate, distribution')
    /\ UNCHANGED <<proc, candidate_set, te_candidate, n_permutations,
                   conditional_te, conditional_order, stats_table, idx_c,
                   perm, c, evaluated, n_estimate, n_permute, n_tables,
                   n_replications, estimate_call,
                   n_permute_data,
                   n_permute_realisations, notProcVars>>

\* min_statistic, lines 188-191
MinStatisticFinish ==
    /\ proc = "min_statistic"
    /\ TableReturned
    /\ distribution' = _find_table_min(stats_table)
    /\ cell_results' = <<>>
    /\ ReturnFindPvalue(te_candidate, distribution')
    /\ UNCHANGED <<proc, candidate_set, te_candidate, n_permutations,
                   conditional_te, conditional_order, stats_table, idx_c,
                   perm, c, evaluated, n_estimate, n_permute, n_tables,
                   n_replications, estimate_call,
                   n_permute_data,
                   n_permute_realisations, notProcVars>>

\* max_statistic_sequential, lines 124-132: one leave-one-out estimate
SequentialLeaveOneOut ==
    /\ pc = "start"
    /\ proc = "max_statistic_sequential"
    /\ Len(conditional_te) < Len(candidate_set)
    /\ \/ /\ \E te \in Values :
                /\ conditional_te' = Append(conditional_te, te)
                /\ estimate_call' =
                       EstimateCall("observed", Len(conditional_te),
                                    NoCandidate, "none",
                                    LeaveOneOutConditional(
                                        Len(conditional_te)))
          /\ UNCHANGED <<pc, ret>>
       \/ /\ EstimateRaises
          /\ UNCHANGED <<conditional_te, estimate_call>>
    /\ n_estimate' = n_estimate + 1
    /\ UNCHANGED <<proc, candidate_set, te_candidate, n_permutations,
                   conditional_order, stats_table, idx_c, perm, distribution,
                   significance, pvalue, c, evaluated, n_permute,
                   n_tables, n_replications,
                   cell_results, n_permute_data,
                   n_permute_realisations, notProcVars>>

\* max_statistic_sequential, lines 133-141: argsort, the sort in place, and
\* the call of _create_surrogate_table
SequentialSort ==
    /\ pc = "start"
    /\ proc = "max_statistic_sequential"
    /\ Len(conditional_te) = Len(candidate_set)
    /\ conditional_order' \in ArgSorts(conditional_te)
    /\ conditional_te' = SortAscending(conditional_te)
    /\ EnterCreateSurrogateTable
    /\ UNCHANGED <<proc, candidate_set, te_candidate, n_permutations,
                   distribution, significance, pvalue, c, ret, evaluated,
                   n_estimate, n_permute, n_replications, estimate_call,
                   n_permute_data,
                   n_permute_realisations, notProcVars>>

\* max_statistic_sequential, lines 142-145: the table is sorted in place and
\* max_distribution is that table
SequentialSortTable ==
    /\ proc = "max_statistic_sequential"
    /\ TableReturned
    /\ stats_table' = _sort_table_max(stats_table)
    /\ cell_results' = <<>>
    /\ distribution' = stats_table'
    /\ significance' = ZerosBool(Len(candidate_set))
    /\ pvalue' = ZerosPvalue(Len(candidate_set))
    /\ c' = 0
    /\ pc' = IF Len(candidate_set) = 0 THEN "unsort" ELSE "scan"
    /\ UNCHANGED <<proc, candidate_set, te_candidate, n_permutations,
                   conditional_te, conditional_order, idx_c, perm, ret,
                   evaluated, n_estimate, n_permute, n_tables,
                   n_replications, estimate_call,
                   n_permute_data,
                   n_permute_realisations, notProcVars>>

\* variant: no "break"
AfterRankNoBreak(s, rank, n) ==
    IF rank + 1 = n THEN "unsort" ELSE "scan"

\* max_statistic_sequential, lines 146, 152-153: where the scan goes after
\* rank c gave s: "if not s: break", else on to the next rank, if any
AfterRank(s, rank, n) ==
    IF ~s THEN "unsort"
    ELSE IF rank + 1 = n THEN "unsort" ELSE "scan"

\* max_statistic_sequential, lines 146-153: one rank of the scan
SequentialScan ==
    /\ pc = "scan"
    /\ c < Len(candidate_set)
    /\ LET out == _find_pvalue(conditional_te[c + 1],
                               Vector(distribution[c + 1]),
                               DefaultAlpha, "one")
       IN  IF out.raised # "none"
           THEN /\ pc' = "raised"
                /\ ret' = Propagated(out.raised)
                /\ UNCHANGED <<significance, pvalue, c, evaluated>>
           ELSE /\ significance' = [significance EXCEPT
                                        ![c + 1] = out.significance]
                /\ pvalue' = [pvalue EXCEPT ![c + 1] = out.pvalue]
                /\ evaluated' = Append(evaluated,
                                       [rank |-> c,
                                        significance |-> out.significance,
                                        pvalue |-> out.pvalue])
                /\ pc' = AfterRank(out.significance, c,
                                   Len(candidate_set))
                /\ c' = IF pc' = "scan" THEN c + 1 ELSE c
                /\ UNCHANGED ret
    /\ UNCHANGED <<proc, candidate_set, te_candidate, n_permutations,
                   conditional_te, conditional_order, stats_table, idx_c,
                   perm, distribution, n_estimate, n_permute, n_tables,
                   n_replications, estimate_call,
                   cell_results, n_permute_data,
                   n_permute_realisations, notProcVars>>

\* max_statistic_sequential, lines 155-160
SequentialReturn ==
    /\ pc = "unsort"
    /\ significance' = TakeByIndex(significance, conditional_order)
    /\ pvalue' = TakeByIndex(pvalue, conditional_order)
    /\ ret' = [kind |-> "arrays", significance |-> significance',
               pvalue |-> pvalue']
    /\ pc' = "done"
    /\ UNCHANGED <<proc, candidate_set, te_candidate, n_permutations,
                   conditional_te, conditional_order, stats_table, idx_c,
                   perm, distribution, c, evaluated, n_estimate, n_permute,
                   n_tables, n_replications, estimate_call,
                   cell_results, n_permute_data,
                   n_permute_realisations, notProcVars>>

\* ---------------------------------------------------- _permute_realisations
\* variant: the offset of the block is not added
RandomPermutationsAtZero(size, offset) ==
    {[k \in 1..size |-> f[k] - 1] : f \in Permutations(1..size)}

\* np.random.permutation(size) + offset: the orders of offset..offset+size-1
RandomPermutations(size, offset) ==
    {[k \in 1..size |-> f[k] - 1 + offset] : f \in Permutations(1..size)}

\* sum(replication_idx == 0)
NPerRepl(idx) == PySum([k \in 1..Len(idx) |-> idx[k] = 0])

\* max(replication_idx) of a non-empty index
MaxReplication(idx) == ReduceMax(idx)

\* variant: assert(perm_range > 1)
PermRangeAcceptedFromTwo(range) == range.type = "str" \/ range.int > 1

\* "if type(perm_range) is not str: assert(perm_range > 2)"
PermRangeAccepted(range) == range.type = "str" \/ range.int > 2

\* variant: realisations_perm = realisations, the same array
CopyIsSameArray == FALSE

\* cp.copy(realisations) is a new array
CopyIsNewArray == TRUE

\* perm[start:start + len(block)] = block, start counted from 0
WriteSlice(array, start, block) ==
    [k \in 1..Len(array) |->
        IF start < k /\ k <= start + Len(block) THEN block[k - start]
        ELSE array[k]]

\* the positions (1-based) selected by  replication_idx == replication
RECURSIVE MaskPositions(_, _)
MaskPositions(idx, r) ==
    IF idx = <<>> THEN <<>>
    ELSE LET front == MaskPositions(SubSeq(idx, 1, Len(idx) - 1), r)
         IN  IF idx[Len(idx)] = r THEN Append(front, Len(idx)) ELSE front

\* variant: d = realisations_perm, the rows of all replications
LeadingRows(array, positions) ==
    [k \in 1..Len(positions) |-> array[k]]

\* d = realisations_perm[mask, :]
MaskedRows(array, positions) ==
    [k \in 1..Len(positions) |-> array[positions[k]]]

\* variant: d is scattered to the positions perm, not gathered from them
ScatteredRows(d, mask) ==
    [k \in 1..Len(mask) |-> d[CHOOSE m \in 1..Len(mask) : mask[m] + 1 = k]]

\* d[perm, :]
PermutedRows(d, mask) == [k \in 1..Len(mask) |-> d[mask[k] + 1]]

\* realisations_perm[mask, :] = rows
AssignMasked(array, positions, rows) ==
    [k \in 1..Len(array) |->
        IF \E m \in 1..Len(positions) : positions[m] = k
        THEN rows[CHOOSE m \in 1..Len(positions) : positions[m] = k]
        ELSE array[k]]

\* an array of n_per_repl entries that are not yet written (np.empty)
Unwritten == -1
EmptyInts(n) == [k \in 1..n |-> Unwritten]

\* the arrays realisations and replication_idx given to a call: rows are
\* told apart by their content, every replication 0..R-1 has the same number
\* of rows, in any arrangement
ReplicationIndexes ==
    {idx \in UNION {[1..n -> 0..(MaxRepl - 1)] : n \in 1..MaxRows} :
        /\ \A r \in 0..MaxReplication(idx) :
              Len(MaskPositions(idx, r)) = NPerRepl(idx)
        /\ NPerRepl(idx) > 0}

\* perm_range: the string 'max' or an integer
PermRangeMax == [type |-> "str", int |-> 0]
PermRanges == {PermRangeMax} \cup
              {[type |-> "int", int |-> b] : b \in 0..MaxRange}

InitPermute ==
    /\ pc = "permute_start"
    /\ replication_idx \in ReplicationIndexes
    /\ realisations = [k \in 1..Len(replication_idx) |-> <<k>>]
    /\ perm_range \in PermRanges
    /\ given = [realisations |-> realisations,
                replication_idx |-> replication_idx]
    /\ realisations_perm = <<>>
    /\ copied = FALSE
    /\ perm_mask = <<>>
    /\ offset_i = 0
    /\ block_p = 0
    /\ replication = 0
    /\ permuted = NoReturn
    /\ PvIdle
    /\ ProcIdle
    /\ ResIdle

\* _permute_realisations, lines 299-312
PermuteStart ==
    /\ pc = "permute_start"
    /\ IF ~PermRangeAccepted(perm_range)
       THEN /\ pc' = "permute_raised"
            /\ permuted' = [kind |-> "raised", error |-> "AssertionError"]
            /\ UNCHANGED <<realisations_perm, copied, perm_mask>>
       ELSE /\ realisations_perm' = realisations
            /\ copied' = CopyIsNewArray
            /\ IF perm_range = PermRangeMax
               THEN /\ perm_mask' \in
                          RandomPermutations(NPerRepl(replication_idx), 0)
                    /\ pc' = "permute_apply"
               ELSE /\ perm_mask' = EmptyInts(NPerRepl(replication_idx))
                    /\ pc' = "permute_build"
            /\ UNCHANGED permuted
    /\ UNCHANGED <<realisations, replication_idx, perm_range, given,
                   offset_i, block_p, replication, notPermVars>>

\* _permute_realisations, lines 313-315: one whole block
PermuteBlock ==
    /\ pc = "permute_build"
    /\ block_p < NPerRepl(replication_idx) \div perm_range.int
    /\ \E block \in RandomPermutations(perm_range.int, offset_i) :
          perm_mask' = WriteSlice(perm_mask, offset_i, block)
    /\ offset_i' = offset_i + perm_range.int
    /\ block_p' = block_p + 1
    /\ UNCHANGED <<pc, realisations, replication_idx, perm_range, given,
                   realisations_perm, copied, replication, permuted,
                   notPermVars>>

\* _permute_realisations, lines 311, 316-317: the remainder block
PermuteRemainder ==
    /\ pc = "permute_build"
    /\ block_p = NPerRepl(replication_idx) \div perm_range.int
    /\ LET n_per_repl == NPerRepl(replication_idx)
           remainder  == n_per_repl % perm_range.int
       IN  IF remainder > 0
           THEN \E block \in RandomPermutations(remainder, offset_i) :
                   perm_mask' = WriteSlice(perm_mask, n_per_repl - remainder,
                                           block)
           ELSE UNCHANGED perm_mask
    /\ pc' = "permute_apply"
    /\ UNCHANGED <<realisations, replication_idx, perm_range, given,
                   realisations_perm, copied, offset_i, block_p, replication,
                   permuted, notPermVars>>

\* _permute_realisations, lines 320-323: one replication
PermuteApply ==
    /\ pc = "permute_apply"
    /\ replication < MaxReplication(replication_idx) + 1
    /\ LET mask == MaskPositions(replication_idx, replication)
           d    == MaskedRows(realisations_perm, mask)
       IN  /\ realisations_perm' =
                 AssignMasked(realisations_perm, mask,
                              PermutedRows(d, perm_mask))
           /\ realisations' = IF copied THEN realisations
                              ELSE realisations_perm'
    /\ replication' = replication + 1
    /\ UNCHANGED <<pc, replication_idx, perm_range, given, copied, perm_mask,
                   offset_i, block_p, permuted, notPermVars>>

\* _permute_realisations, line 325
PermuteReturn ==
    /\ pc = "permute_apply"
    /\ replication = MaxReplication(replication_idx) + 1
    /\ permuted' = [kind |-> "array", array |-> realisations_perm,
                    new_object |-> copied]
    /\ pc' = "permute_done"
    /\ UNCHANGED <<realisations, replication_idx, perm_range, given,
                   realisations_perm, copied, perm_mask, offset_i, block_p,
                   replication, notPermVars>>

NextPermute ==
    \/ PermuteStart
    \/ PermuteBlock
    \/ PermuteRemainder
    \/ PermuteApply
    \/ PermuteReturn

SpecPermute == InitPermute /\ [][NextPermute]_vars

\* ---------------------------------------------------------------- Results
\* A results dict (int keys, insertion order) is a sequence of items.
Keys(dict) == [k \in 1..Len(dict) |-> dict[k].key]

HasKey(dict, key) == \E k \in 1..Len(dict) : dict[k].key = key

GetItem(dict, key) ==
    dict[CHOOSE k \in 1..Len(dict) : dict[k].key = key].value

\* dict[key] = value
SetItem(dict, key, value) ==
    IF HasKey(dict, key)
    THEN [k \in 1..Len(dict) |->
             IF dict[k].key = key THEN [key |-> key, value |-> value]
             ELSE dict[k]]
    ELSE Append(dict, [key |-> key, value |-> value])

\* dict_1.update(dict_2)
DictUpdate(dict_1, dict_2) ==
    [k \in DOMAIN dict_1 \cup DOMAIN dict_2 |->
        IF k \in DOMAIN dict_2 THEN dict_2[k] ELSE dict_1[k]]

\* utils.conflicting_entries, as the docstring of combine_results has it:
\* "settings with equal keys but different values"; keys found in one of the
\* two only are no conflict.
conflicting_entries(dict_1, dict_2) ==
    \E k \in DOMAIN dict_1 \cap DOMAIN dict_2 : dict_1[k] # dict_2[k]

\* Settings: alpha_fdr, which _add_fdr writes, and one setting of the
\* analysis itself.
SettingKeys == {"alpha_fdr", "cmi_estimator"}

SettingValues(key) ==
    IF key = "alpha_fdr" THEN {"None", "0.05"} ELSE {"JidtKraskovCMI"}

SettingsDicts ==
    UNION {{d \in [K -> UNION {SettingValues(k) : k \in SettingKeys}] :
               \A k \in K : d[k] \in SettingValues(k)} :
           K \in SUBSET SettingKeys}

\* process numbers; MaxNodes itself is in no network of at most MaxNodes
\* nodes
Processes == 0..MaxNodes

\* FDR-corrected results: none (DotDict()) or some
NoFdr == {}

FdrResults == {NoFdr, {"adjacency_matrix"}}

\* the results stored for one process, by where they came from
DirectResult == "added"

PartialResult == "partial"

AscendingLists ==
    {q \in UNION {[1..n -> Processes] : n \in 0..(MaxNodes + 1)} :
        \A k \in 1..(Len(q) - 1) : q[k] < q[k + 1]}

\* The partial results objects combine_results may be given: each with the
\* attributes of a ResultsNetworkInference object, its processes being the
\* keys of its results and its settings holding the alpha_fdr that _add_fdr
\* wrote.
PartialResults ==
    {[settings |-> d,
      single_target |-> [k \in 1..Len(q) |->
                            [key |-> q[k], value |-> PartialResult]],
      _processes_analysed |-> q,
      fdr_correction |-> f] :
        d \in {e \in SettingsDicts : "alpha_fdr" \in DOMAIN e},
        q \in AscendingLists,
        f \in FdrResults}

\* del obj.name: AttributeError when obj has no attribute of that name
HasAttribute(obj, name) == name \in DOMAIN obj

DelAttribute(obj, name) == [a \in DOMAIN obj \ {name} |-> obj[a]]

\* lines 261-265: try: del r.fdr_corrected / except AttributeError: pass
RemoveFdrCorrected(r) ==
    IF HasAttribute(r, "fdr_corrected")
    THEN DelAttribute(r, "fdr_corrected")
    ELSE r

\* variant: no process counts as present
NeverDuplicate(process) == FALSE

\* _is_duplicate_process, lines 216-221
_is_duplicate_process(process) ==
    \E k \in 1..Len(targets_analysed) : targets_analysed[k] = process

\* _check_result, lines 200-214: the exception it raises, if any
_check_result(process, new_settings) ==
    IF process > n_nodes - 1 THEN "RuntimeError"
    ELSE IF _is_duplicate_process(process) THEN "RuntimeError"
    ELSE IF conflicting_entries(settings, new_settings) THEN "RuntimeError"
    ELSE "none"

\* _add_single_result, lines 430-436 (343-348 for single_process)
_add_single_result(target, result, new_settings) ==
    IF _check_result(target, new_settings) # "none"
    THEN UNCHANGED <<settings, single_target, targets_analysed>>
    ELSE /\ settings' = DictUpdate(settings, new_settings)
         /\ single_target' = SetItem(single_target, target, result)
         /\ targets_analysed' = Keys(single_target')

CallRecord(op, process, outcome) ==
    [called |-> TRUE, op |-> op, process |-> process, outcome |-> outcome]

NoProcess == -1

\* Results.__init__ and ResultsNetworkInference.__init__, lines 88-94,
\* 416-419, 537-539: empty results and _add_fdr(None)
InitResults ==
    /\ pc = "results"
    /\ n_nodes \in 1..MaxNodes
    /\ settings = [k \in {"alpha_fdr"} |-> "None"]
    /\ single_target = <<>>
    /\ targets_analysed = <<>>
    /\ fdr_correction = NoFdr
    /\ r_partial = NoPartial
    /\ idx_p = 0
    /\ res_call = NoCall
    /\ PvIdle
    /\ ProcIdle
    /\ PermIdle

\* a call of _add_single_result from outside
CallAddSingleResult ==
    /\ pc = "results"
    /\ \E target \in Processes, new_settings \in SettingsDicts :
          /\ _add_single_result(target, DirectResult, new_settings)
          /\ res_call' = CallRecord("_add_single_result", target,
                                    _check_result(target, new_settings))
    /\ r_partial' = NoPartial
    /\ UNCHANGED <<pc, n_nodes, fdr_correction, idx_p, notResVars>>

\* _add_fdr, lines 537-550
CallAddFdr ==
    /\ pc = "results"
    /\ \E fdr \in FdrResults, alpha \in SettingValues("alpha_fdr") :
          /\ settings' = DictUpdate(settings,
                                    [k \in {"alpha_fdr"} |-> alpha])
          /\ fdr_correction' = fdr
    /\ res_call' = CallRecord("_add_fdr", NoProcess, "none")
    /\ r_partial' = NoPartial
    /\ UNCHANGED <<pc, n_nodes, single_target, targets_analysed, idx_p,
                   notResVars>>

\* combine_results is called
CombineStart ==
    /\ pc = "results"
    /\ pc' = "combine_r"
    /\ r_partial' = NoPartial
    /\ idx_p' = 0
    /\ UNCHANGED <<n_nodes, settings, single_target, targets_analysed,
                   fdr_correction, res_call, notResVars>>

\* combine_results, lines 250-254: the next partial results object r.  The
\* arguments are arbitrary, and any number of them, so r is chosen when the
\* loop gets to it, and objects the loop is through with are not kept.
CombineNextResult ==
    /\ pc = "combine_r"
    /\ \E r \in PartialResults :
          /\ r_partial' = r
          /\ IF conflicting_entries(settings, r.settings)
             THEN /\ pc' = "results"
                  /\ res_call' = CallRecord("combine_results", NoProcess,
                                            "RuntimeError")
             ELSE /\ pc' = "combine_p"
                  /\ UNCHANGED res_call
    /\ idx_p' = 0
    /\ UNCHANGED <<n_nodes, settings, single_target, targets_analysed,
                   fdr_correction, notResVars>>

\* combine_results, lines 255-276: one process p of r
CombineProcess ==
    /\ pc = "combine_p"
    /\ idx_p < Len(r_partial._processes_analysed)
    /\ LET r == r_partial
           p == r._processes_analysed[idx_p + 1]
       IN  IF _is_duplicate_process(p)
           THEN /\ pc' = "results"
                /\ res_call' = CallRecord("combine_results", p,
                                          "RuntimeError")
                /\ UNCHANGED <<settings, single_target, targets_analysed,
                               r_partial, idx_p>>
           ELSE /\ r_partial' = RemoveFdrCorrected(r)
                /\ _add_single_result(p, GetItem(r.single_target, p),
                                      r.settings)
                /\ IF _check_result(p, r.settings) # "none"
                   THEN /\ pc' = "results"
                        /\ res_call' = CallRecord("combine_results", p,
                                            _check_result(p, r.settings))
                        /\ UNCHANGED idx_p
                   ELSE /\ idx_p' = idx_p + 1
                        /\ UNCHANGED <<pc, res_call>>
    /\ UNCHANGED <<n_nodes, fdr_correction, notResVars>>

\* combine_results: the processes of r are through
CombineResultDone ==
    /\ pc = "combine_p"
    /\ idx_p = Len(r_partial._processes_analysed)
    /\ pc' = "combine_r"
    /\ UNCHANGED <<n_nodes, settings, single_target, targets_analysed,
                   fdr_correction, r_partial, idx_p, res_call, notResVars>>

\* combine_results: the arguments are through
CombineReturn ==
    /\ pc = "combine_r"
    /\ pc' = "results"
    /\ res_call' = CallRecord("combine_results", NoProcess, "none")
    /\ UNCHANGED <<n_nodes, settings, single_target, targets_analysed,
                   fdr_correction, r_partial, idx_p, notResVars>>

NextResults ==
    \/ CallAddSingleResult
    \/ CallAddFdr
    \/ CombineStart
    \/ CombineNextResult
    \/ CombineProcess
    \/ CombineResultDone
    \/ CombineReturn

SpecResults == InitResults /\ [][NextResults]_vars

\* ---------------------------------------------------------- specifications
NextPvalue == CallFindPvalue

NextProc ==
    \/ OmnibusStart
    \/ OmnibusSurrogate
    \/ OmnibusReturn
    \/ MaxStatisticStart
    \/ MinStatisticStart
    \/ CreateSurrogateCell
    \/ CreateSurrogateNextCandidate
    \/ MaxStatisticFinish
    \/ MinStatisticFinish
    \/ SequentialLeaveOneOut
    \/ SequentialSort
    \/ SequentialSortTable
    \/ SequentialScan
    \/ SequentialReturn

Init == InitPvalue \/ InitProc \/ InitPermute \/ InitResults

Next == NextPvalue \/ NextProc \/ NextPermute \/ NextResults

SpecPvalue == InitPvalue /\ [][NextPvalue]_vars

SpecProc == InitProc /\ [][NextProc]_vars

\* _find_pvalue, called directly or by a test procedure
SpecStats == (InitPvalue \/ InitProc) /\ [][NextPvalue \/ NextProc]_vars

Spec == Init /\ [][Next]_vars

\* ================================================================ claims
\* -------------------------------------------------- _find_pvalue (C1..C5)
CountGreater(d, s) == Cardinality({i \in DOMAIN d : d[i] > s})
CountSmaller(d, s) == Cardinality({i \in DOMAIN d : d[i] < s})
Smaller(a, b) == IF a < b THEN a ELSE b

\* p = k / n, as numbers
IsQuotient(p, k, n) == p.den > 0 /\ n > 0 /\ p.num * n = k * p.den

Returned(call) == call.called /\ call.out.raised = "none"

\* C1: with tail='one', on a non-empty distribution, the p-value is the
\* number of entries strictly greater than the statistic divided by the
\* length of the distribution.
C1_OneTailedPvalue ==
    (Returned(pv_call) /\ pv_call.tail = "one") =>
        IsQuotient(pv_call.out.pvalue,
                   CountGreater(pv_distribution, pv_call.statistic),
                   Len(pv_distribution))

\* the spec's example: one of four entries exceeds the statistic, p = 1/4
C1_Witness ==
    /\ Returned(pv_call)
    /\ pv_call.tail = "one"
    /\ pv_distribution = <<0, 0, 0, 2>>
    /\ pv_call.statistic = 1
    /\ pv_call.out.pvalue = [num |-> 1, den |-> 4]

\* C2: with tail='two' the p-value is the smaller of the two strict counts
\* divided by the length of the distribution; the tail is not doubled.
C2_TwoTailedPvalue ==
    (Returned(pv_call) /\ pv_call.tail = "two") =>
        IsQuotient(pv_call.out.pvalue,
                   Smaller(CountGreater(pv_distribution, pv_call.statistic),
                           CountSmaller(pv_distribution, pv_call.statistic)),
                   Len(pv_distribution))

\* one entry above, two below: p = 1/3
C2_Witness ==
    /\ Returned(pv_call)
    /\ pv_call.tail = "two"
    /\ pv_distribution = <<0, 0, 2>>
    /\ pv_call.statistic = 1
    /\ pv_call.out.pvalue = [num |-> 1, den |-> 3]

\* C4: one-tailed, for a fixed distribution, a statistic at least as large
\* never has a larger p-value.
C4_PvalueMonotone ==
    (/\ Returned(pv_call) /\ pv_call.tail = "one"
     /\ Returned(pv_previous) /\ pv_previous.tail = "one"
     /\ pv_call.statistic >= pv_previous.statistic)
        => ~RatLess(pv_previous.out.pvalue, pv_call.out.pvalue)

\* two calls on one distribution: the larger statistic has the strictly
\* smaller p-value
C4_Witness ==
    /\ Returned(pv_call) /\ pv_call.tail = "one"
    /\ Returned(pv_previous) /\ pv_previous.tail = "one"
    /\ pv_call.statistic > pv_previous.statistic
    /\ RatLess(pv_call.out.pvalue, pv_previous.out.pvalue)

\* the distribution without the entries tied with s
WithoutTies(d, s) == SelectSeq(d, LAMBDA x : x # s)

\* C5: entries equal to the statistic count neither as greater nor as
\* smaller: for both tails, p times the length is the count taken over the
\* entries that are not tied, and a distribution of ties only gives p = 0.
C5_TiesNotCounted ==
    Returned(pv_call) =>
        LET s  == pv_call.statistic
            d  == WithoutTies(pv_distribution, s)
            k  == IF pv_call.tail = "one" THEN CountGreater(d, s)
                  ELSE Smaller(CountGreater(d, s), CountSmaller(d, s))
        IN  /\ IsQuotient(pv_call.out.pvalue, k, Len(pv_distribution))
            /\ (d = <<>>) => pv_call.out.pvalue = ZeroPvalue

\* a distribution of ties only, evaluated two-tailed
C5_Witness ==
    /\ Returned(pv_call)
    /\ pv_call.tail = "two"
    /\ pv_distribution = <<1, 1>>
    /\ pv_call.statistic = 1
    /\ pv_call.out.pvalue = ZeroPvalue

\* ------------------------------------------ the test procedures (C3, C6..C10)
\* p < 0.05, as numbers
BelowDefaultAlpha(p) == p.num * 20 < p.den

\* C3: wherever _find_pvalue evaluated a case (called directly, inside
\* omnibus_test, max_statistic or min_statistic, or for a rank of
\* max_statistic_sequential), the significance flag is true exactly when the
\* p-value is strictly below alpha; the four procedures use alpha = 0.05.
C3_SignificantIffBelowAlpha ==
    /\ Returned(pv_call) =>
          (pv_call.out.significance
              <=> pv_call.out.pvalue.num * pv_call.alpha.den
                    < pv_call.alpha.num * pv_call.out.pvalue.den)
    /\ ret.kind = "pair" =>
          (ret.significance <=> BelowDefaultAlpha(ret.pvalue))
    /\ \A k \in 1..Len(evaluated) :
          evaluated[k].significance <=> BelowDefaultAlpha(evaluated[k].pvalue)

\* the sequential test evaluated a significant rank and then a
\* non-significant one
C3_Witness ==
    /\ proc = "max_statistic_sequential"
    /\ pc = "done"
    /\ Len(evaluated) = 2
    /\ evaluated[1].significance
    /\ ~evaluated[2].significance
    /\ ~BelowDefaultAlpha(evaluated[2].pvalue)

\* C6: max_statistic and min_statistic with an empty candidate_set report
\* significant = true whatever the observed statistic, without a surrogate
\* table, an estimator call or a permutation.
C6_EmptyCandidateSetSignificant ==
    (/\ proc \in {"max_statistic", "min_statistic"}
     /\ candidate_set = <<>>
     /\ pc # "start")
        => /\ pc = "done"
           /\ ret.kind # "none"
           /\ ret.significance = TRUE
           /\ n_tables = 0
           /\ n_estimate = 0
           /\ n_permute = 0
           /\ stats_table = <<>>

\* min_statistic returned for an empty candidate_set and the smallest
\* statistic there is
C6_Witness ==
    /\ proc = "min_statistic"
    /\ candidate_set = <<>>
    /\ te_candidate = 0
    /\ n_permutations > 0
    /\ pc = "done"
    /\ ret.significance = TRUE

\* C7: every normal return of omnibus_test, max_statistic and
\* min_statistic, the empty-candidate_set return included, is a pair of a
\* boolean and a p-value in [0, 1].
C7_ReturnsCompletePair ==
    (pc = "done" /\ proc \in {"omnibus_test", "max_statistic",
                              "min_statistic"})
        => /\ ret.kind = "pair"
           /\ ret.significance \in BOOLEAN
           /\ ret.pvalue.den > 0
           /\ 0 <= ret.pvalue.num
           /\ ret.pvalue.num <= ret.pvalue.den

\* what the scan found for the rank at (1-based) position k: the evaluated
\* outcome, or the zero-initialised one if the scan never got there
RankOutcome(k) ==
    IF k <= Len(evaluated)
    THEN [significance |-> evaluated[k].significance,
          pvalue |-> evaluated[k].pvalue]
    ELSE [significance |-> FALSE, pvalue |-> ZeroPvalue]

\* C8: max_statistic_sequential returns its arrays in the original
\* candidate order: the candidate at input position conditional_order[k],
\* whose statistic has ascending rank k, gets the outcome of rank k.
C8_ReturnedInCandidateOrder ==
    (pc = "done" /\ proc = "max_statistic_sequential")
        => \A k \in 1..Len(candidate_set) :
              /\ ret.significance[conditional_order[k] + 1]
                    = RankOutcome(k).significance
              /\ ret.pvalue[conditional_order[k] + 1]
                    = RankOutcome(k).pvalue

IsAscending(v) == \A k \in 1..(Len(v) - 1) : v[k] <= v[k + 1]

EstimatorFailed == ret.kind = "raised" /\ ret.error = EstimatorError

\* a procedure called with n_permutations = 0 that got to its end, or to
\* an exception that did not come from the estimator
EndedWithoutPermutations ==
    /\ pc \in {"done", "unsort", "raised"}
    /\ n_permutations = 0
    /\ ~EstimatorFailed

\* omnibus_test always calls _find_pvalue; the other three return before it
\* when the candidate set is empty
ReachesFindPvalue == proc = "omnibus_test" \/ candidate_set # <<>>

NoOutcome(out) == out.pvalue = NoPvalue /\ ~out.significance

\* C14 as stated: an empty or not one-dimensional distribution is rejected
\* by an explicit precondition check (the assert on the dimension is the
\* only one there is), without an outcome; so too when a procedure called
\* with n_permutations = 0 hands _find_pvalue an empty distribution.
C14_RejectedByPreconditionCheck ==
    /\ (pv_call.called /\ (pv_ndim # 1 \/ Len(pv_distribution) = 0)) =>
           /\ pv_call.out.raised = "AssertionError"
           /\ NoOutcome(pv_call.out)
    /\ (EndedWithoutPermutations /\ ReachesFindPvalue) =>
           /\ pc = "raised"
           /\ ret = Propagated("AssertionError")

\* C14, amended: a distribution that is not one-dimensional fails the assert
\* (AssertionError); an empty one-dimensional distribution passes it and the
\* call fails in the division by the length 0 (ZeroDivisionError); neither
\* call yields an outcome and every other call does.  A procedure called
\* with n_permutations = 0 ends in that ZeroDivisionError exactly when it
\* reaches _find_pvalue.
C14_EmptyOrNotOneDimensionalFails ==
    /\ pv_call.called =>
           /\ pv_call.out.raised =
                  IF pv_ndim # 1 THEN "AssertionError"
                  ELSE IF Len(pv_distribution) = 0 THEN "ZeroDivisionError"
                  ELSE "none"
           /\ pv_call.out.raised # "none" => NoOutcome(pv_call.out)
    /\ EndedWithoutPermutations =>
           IF ReachesFindPvalue
           THEN /\ pc = "raised"
                /\ ret = Propagated("ZeroDivisionError")
                /\ evaluated = <<>>
           ELSE pc # "raised"

\* _find_pvalue was called with an empty vector
C14_Witness ==
    /\ pv_call.called
    /\ pv_ndim = 1
    /\ pv_distribution = <<>>
    /\ pv_call.out.raised = "ZeroDivisionError"

\* C15: when an estimate call fails inside omnibus_test, max_statistic,
\* min_statistic, max_statistic_sequential or _create_surrogate_table, the
\* procedure ends there with that failure: no estimate call follows, the
\* table being filled is handed to nobody (the caller's distribution is
\* never assigned) and no significance or p-value is produced.
C15_EstimatorFailurePropagates ==
    [][/\ EstimatorFailed' =>
              /\ pc' = "raised"
              /\ ret' = Propagated(EstimatorError)
              /\ proc # "omnibus_test" => distribution' = <<>>
              /\ significance' = <<>>
              /\ pvalue' = <<>>
              /\ evaluated' = <<>>
       /\ EstimatorFailed => UNCHANGED <<n_estimate, n_permute, stats_table>>
      ]_vars

\* max_statistic, 2 candidates, 2 permutations: the fourth estimate call
\* failed with three cells of the table written
C15_Witness ==
    /\ pc = "raised"
    /\ EstimatorFailed
    /\ proc = "max_statistic"
    /\ Len(candidate_set) = 2
    /\ n_permutations = 2
    /\ idx_c = 1
    /\ perm = 1
    /\ n_estimate = 4

\* ------------------------------------- _permute_realisations (C11..C13, C19, C20)
\* the rows of an array at the positions of replication r
RowsOf(array, r) == MaskedRows(array, MaskPositions(given.replication_idx, r))

Occurrences(rows, x) == Cardinality({k \in 1..Len(rows) : rows[k] = x})

ReplicationsGiven == 0..MaxReplication(given.replication_idx)

PermuteReturned == pc = "permute_done" /\ permuted.kind = "array"

C12_InputNotMutated ==
    pc \in {"permute_start", "permute_build", "permute_apply",
            "permute_done", "permute_raised"} =>
        /\ realisations = given.realisations
        /\ replication_idx = given.replication_idx
        /\ PermuteReturned => permuted.new_object

\* the call returned rows in another order than that of the array passed in
C12_Witness ==
    /\ PermuteReturned
    /\ Len(realisations) = 4
    /\ permuted.array # realisations
    /\ realisations = <<<<1>>, <<2>>, <<3>>, <<4>>>>

\* C13: an integer perm_range below 3 fails before any permutation is
\* computed and nothing is returned; every integer from 3 on is accepted.
C13_BlockSizeBelowThreeRejected ==
    (pc \in {"permute_build", "permute_apply", "permute_done",
             "permute_raised"} /\ perm_range.type = "int") =>
        IF perm_range.int < 3
        THEN /\ pc = "permute_raised"
             /\ permuted.kind = "raised"
             /\ perm_mask = <<>>
             /\ realisations_perm = <<>>
        ELSE /\ pc # "permute_raised"
             /\ permuted.kind # "raised"

\* perm_range = 2 was rejected
C13_Witness ==
    /\ pc = "permute_raised"
    /\ perm_range = [type |-> "int", int |-> 2]
    /\ permuted.kind = "raised"
    /\ Len(realisations) = 4

IsPermutation(mask) ==
    \A v \in 0..(Len(mask) - 1) : \E k \in 1..Len(mask) : mask[k] = v

\* C19: with an integer block size b >= 3 the permutation of positions maps
\* every position into its own block of b consecutive positions (the last
\* block being the shorter remainder), so a remainder of one position does
\* not move.
C19_BlocksPermutedSeparately ==
    (pc \in {"permute_apply", "permute_done"} /\ perm_range.type = "int") =>
        LET b == perm_range.int
            n == NPerRepl(given.replication_idx)
        IN  /\ Len(perm_mask) = n
            /\ IsPermutation(perm_mask)
            /\ \A k \in 1..n : perm_mask[k] \div b = (k - 1) \div b
            /\ n % b = 1 => perm_mask[n] = n - 1

\* the spec's example: blocks of 3, 3 and 1 positions, the first two permuted
C19_Witness ==
    /\ PermuteReturned
    /\ perm_range = [type |-> "int", int |-> 3]
    /\ perm_mask = <<2, 0, 1, 4, 5, 3, 6>>
    /\ permuted.array[7] = <<7>>
    /\ permuted.array[1] = <<3>>

\* C20: one permutation of positions is applied to every replication: the
\* row returned at position k of a replication is the row passed in at
\* position perm[k] of the same replication.
C20_SamePermutationEveryReplication ==
    PermuteReturned =>
        \A r \in ReplicationsGiven :
           \A k \in 1..Len(perm_mask) :
              RowsOf(permuted.array, r)[k]
                 = RowsOf(given.realisations, r)[perm_mask[k] + 1]

\* two replications of three rows, permuted by a cycle of length three
C20_Witness ==
    /\ PermuteReturned
    /\ given.replication_idx = <<0, 0, 0, 1, 1, 1>>
    /\ perm_mask = <<1, 2, 0>>
    /\ permuted.array = <<<<2>>, <<3>>, <<1>>, <<5>>, <<6>>, <<4>>>>

\* ------------------------------------------------- _sort_table_max (C16)
\* the step of max_statistic_sequential that calls _sort_table_max on the
\* surrogate table it got from _create_surrogate_table
SortTableCalled ==
    /\ proc = "max_statistic_sequential"
    /\ pc = "table"
    /\ pc' \in {"scan", "unsort"}

\* C16 as stated: after the call every cell of the caller's table holds the
\* value it held before the call.
C16_InputTableUnchanged ==
    [][SortTableCalled => stats_table' = stats_table]_vars

\* C16, amended: the call sorts every column of the caller's table
\* ascending in place, keeping each column's values, and what it returns is
\* that same table.
C16_InputTableSortedInPlace ==
    [][SortTableCalled =>
          /\ Len(stats_table') = Len(stats_table)
          /\ NCols(stats_table') = NCols(stats_table)
          /\ \A j \in 1..NCols(stats_table) :
                 /\ IsAscending(Column(stats_table', j))
                 /\ \A v \in Values :
                        Occurrences(Column(stats_table', j), v) =
                            Occurrences(Column(stats_table, j), v)
          /\ distribution' = stats_table'
      ]_vars

\* right after the call, on a table of three candidates and two permutations
C16_Witness ==
    /\ proc = "max_statistic_sequential"
    /\ pc = "scan"
    /\ c = 0
    /\ evaluated = <<>>
    /\ stats_table = <<<<0, 1>>, <<1, 1>>, <<2, 2>>>>
    /\ distribution = stats_table

\* ------------------------------------------------------ Results (C17, C18)
CarriesFdr(r) == HasAttribute(r, "fdr_correction") /\ r.fdr_correction # NoFdr

CombineReturned ==
    /\ pc = "results"
    /\ res_call = CallRecord("combine_results", NoProcess, "none")

\* C17: when combine_results has returned, a partial results object it
\* combined (one with processes, all of them added) carries no FDR-corrected
\* results any more.
C17_NoFdrLeftOnCombined ==
    (/\ CombineReturned
     /\ r_partial # NoPartial
     /\ r_partial._processes_analysed # <<>>) => ~CarriesFdr(r_partial)

IsStored(process) == HasKey(single_target, process)

NotInNetwork(process) == process > n_nodes - 1

\* the list of processes has no index twice, is the list of keys of the
\* stored results, and holds no index above n_nodes - 1
ResultsConsistent ==
    /\ \A j, k \in 1..Len(targets_analysed) :
          j # k => targets_analysed[j] # targets_analysed[k]
    /\ targets_analysed = Keys(single_target)
    /\ \A k \in 1..Len(targets_analysed) :
          targets_analysed[k] <= n_nodes - 1

\* a step that is a call of _add_single_result from outside
DirectAdd ==
    /\ pc = "results"
    /\ pc' = "results"
    /\ res_call'.op = "_add_single_result"

\* a step of combine_results that adds the next process of r
CombineAdd ==
    /\ pc = "combine_p"
    /\ idx_p < Len(r_partial._processes_analysed)

StoredUnchanged == UNCHANGED <<settings, single_target, targets_analysed>>

RejectedAddChangesNothing ==
    /\ (/\ DirectAdd
        /\ \/ IsStored(res_call'.process)
           \/ NotInNetwork(res_call'.process)) =>
           /\ res_call'.outcome = "RuntimeError"
           /\ StoredUnchanged
    /\ CombineAdd =>
           LET p == r_partial._processes_analysed[idx_p + 1]
           IN  (IsStored(p) \/ NotInNetwork(p)) =>
                   /\ pc' = "results"
                   /\ res_call' = CallRecord("combine_results", p,
                                             "RuntimeError")
                   /\ StoredUnchanged

\* C18: whatever calls of _add_single_result and combine_results were made,
\* and however they ended, the processes analysed are listed once each,
\* are the keys of the stored results and lie below n_nodes; adding a
\* process that is stored already or is not below n_nodes raises
\* RuntimeError and changes neither the settings nor the stored results.
C18_ProcessesStoredOnce ==
    []ResultsConsistent /\ [][RejectedAddChangesNothing]_vars

\* process 0 came in through combine_results; adding it again was refused
C18_Witness ==
    /\ pc = "results"
    /\ n_nodes = 2
    /\ res_call = CallRecord("_add_single_result", 0, "RuntimeError")
    /\ single_target = <<[key |-> 0, value |-> PartialResult]>>
    /\ targets_analysed = <<0>>

\* ------------------------------------------------- _create_surrogate_table
IsSequential == proc = "max_statistic_sequential"

\* the estimate calls made before _create_surrogate_table was entered
EstimatesBeforeTable == IF IsSequential THEN Len(candidate_set) ELSE 0

\* C21: the table of _create_surrogate_table has one row for every candidate
\* and n_permutations columns; every cell costs one estimate call of its own,
\* made candidate after candidate and, for a candidate, permutation after
\* permutation; the k-th call of the table is the one of candidate
\* k div n_permutations, permutation k mod n_permutations, and its result is
\* what that cell holds; the returned table took
\* len(idx_test_set) * n_permutations calls.
C21_OneEstimatePerCell ==
    pc = "table" =>
        /\ Len(stats_table) = Len(candidate_set)
        /\ \A row \in 1..Len(stats_table) :
              Len(stats_table[row]) = n_permutations
        /\ Len(cell_results) = idx_c * n_permutations + perm
        /\ \A k \in 1..Len(cell_results) :
              /\ cell_results[k].candidate = (k - 1) \div n_permutations
              /\ cell_results[k].perm = (k - 1) % n_permutations
              /\ stats_table[cell_results[k].candidate + 1]
                            [cell_results[k].perm + 1] = cell_results[k].value
        /\ n_estimate = EstimatesBeforeTable + Len(cell_results)
        /\ TableReturned =>
              Len(cell_results) = Len(candidate_set) * n_permutations

\* a table of 3 candidates and 2 permutations is returned, with different
\* values in the cells of a row and of a column
C21_Witness ==
    /\ proc = "max_statistic"
    /\ TableReturned
    /\ n_estimate = 6
    /\ stats_table = <<<<0, 1>>, <<2, 0>>, <<1, 2>>>>

\* ------------------------------------------------ the permutation strategy
SurrogateEstimated == estimate_call.called /\ estimate_call.kind = "surrogate"

\* C22: data.n_replications decides for a whole call how surrogates are
\* drawn.  With more than one replication every surrogate comes from a call
\* of data.permute_data and _permute_realisations is never called; with one
\* replication every surrogate comes from _permute_realisations, called with
\* the replication index that belongs to the realisations it shuffles (the
\* candidate's own in _create_surrogate_table, the joint sources' in
\* omnibus_test), and data.permute_data is never called.
C22_StrategyFixedByReplications ==
    /\ n_permute = n_permute_data + n_permute_realisations
    /\ n_replications > 1 =>
          /\ n_permute_realisations = 0
          /\ SurrogateEstimated =>
                /\ estimate_call.shuffle = "permute_data"
                /\ estimate_call.repl_idx = NoCandidate
    /\ n_replications <= 1 =>
          /\ n_permute_data = 0
          /\ SurrogateEstimated =>
                /\ estimate_call.shuffle = "_permute_realisations"
                /\ estimate_call.repl_idx = estimate_call.candidate

\* a table over two replications is complete, every cell from permute_data
C22_Witness ==
    /\ proc = "min_statistic"
    /\ TableReturned
    /\ n_replications = 2
    /\ n_permute_data = 2
    /\ SurrogateEstimated
    /\ estimate_call.candidate = 1

\* ------------------------------------------------------------ omnibus_test
\* the latest estimate call had the current value's realisations as second
\* and the target's conditional realisations as third argument
OmnibusArguments ==
    /\ estimate_call.candidate = NoCandidate
    /\ estimate_call.current_value = "_current_value_realisations"
    /\ estimate_call.conditional.name = "cond_target_realisations"

\* C23: omnibus_test estimates once on the joint sources as they are, then
\* n_permutations times on shuffled joint sources, one surrogate value per
\* call, always with the same current-value and conditional-target
\* realisations; that makes 1 + n_permutations estimate calls, and what it
\* returns is the one-tailed outcome of the observed statistic against
\* those n_permutations surrogate values.
C23_OmnibusObservedThenSurrogates ==
    proc = "omnibus_test" =>
        /\ pc = "omnibus_loop" =>
              /\ n_estimate = 1 + perm
              /\ n_permute = perm
              /\ Len(distribution) = n_permutations
              /\ OmnibusArguments
              /\ perm = 0 =>
                    /\ estimate_call.kind = "observed"
                    /\ estimate_call.shuffle = "none"
              /\ perm > 0 =>
                    /\ estimate_call.kind = "surrogate"
                    /\ estimate_call.shuffle # "none"
                    /\ estimate_call.perm = perm - 1
        /\ pc = "done" =>
              /\ n_estimate = 1 + n_permutations
              /\ n_permute = n_permutations
              /\ Len(distribution) = n_permutations
              /\ ret.kind = "pair"
              /\ IsQuotient(ret.pvalue,
                            CountGreater(distribution, te_candidate),
                            n_permutations)
              /\ ret.significance = BelowDefaultAlpha(ret.pvalue)

\* observed 1 against the surrogates 2 and 0: p = 1/2, not significant
C23_Witness ==
    /\ proc = "omnibus_test"
    /\ pc = "done"
    /\ te_candidate = 1
    /\ distribution = <<2, 0>>
    /\ ret = [kind |-> "pair", significance |-> FALSE,
              pvalue |-> [num |-> 1, den |-> 2]]

\* -------------------------------------------- max_statistic, min_statistic
ColumnValues(table, j) == {table[i][j] : i \in 1..Len(table)}

IsColumnMax(x, table, j) ==
    x \in ColumnValues(table, j) /\ \A y \in ColumnValues(table, j) : y <= x

IsColumnMin(x, table, j) ==
    x \in ColumnValues(table, j) /\ \A y \in ColumnValues(table, j) : x <= y

ExtremeStatisticReturned ==
    /\ proc \in TakesStatistic
    /\ pc = "done"
    /\ candidate_set # <<>>

\* C24: with candidates to test, max_statistic returns the one-tailed outcome
\* of the observed statistic against the maxima of the columns of the
\* surrogate table, min_statistic against the minima of the columns; the
\* null distribution has n_permutations entries, entry j being the largest
\* (smallest) value of column j over all candidates.
C24_AgainstColumnExtremes ==
    ExtremeStatisticReturned =>
        /\ Len(distribution) = n_permutations
        /\ \A j \in 1..n_permutations :
              IF proc = "max_statistic"
              THEN IsColumnMax(distribution[j], stats_table, j)
              ELSE IsColumnMin(distribution[j], stats_table, j)
        /\ ret.kind = "pair"
        /\ IsQuotient(ret.pvalue, CountGreater(distribution, te_candidate),
                      n_permutations)
        /\ ret.significance = BelowDefaultAlpha(ret.pvalue)

\* the maxima 2 and 1 are in different rows; observed 1 gives p = 1/2
C24_Witness ==
    /\ proc = "max_statistic"
    /\ pc = "done"
    /\ stats_table = <<<<0, 1>>, <<2, 0>>, <<1, 0>>>>
    /\ distribution = <<2, 1>>
    /\ te_candidate = 1
    /\ ret.pvalue = [num |-> 1, den |-> 2]

\* ------------------------------------- max_statistic_sequential, estimates
ObservedEstimated == estimate_call.called /\ estimate_call.kind = "observed"

\* C25: in max_statistic_sequential the observed statistic of a candidate is
\* estimated with the conditioning set from which _remove_realisation took
\* that candidate; the surrogate table is built once, over the full set, and
\* every surrogate estimate has analysis_setup._conditional_realisations as
\* conditioning set, with no candidate taken out, the shuffled one included.
C25_LeaveOneOutOnlyForObserved ==
    IsSequential =>
        /\ ObservedEstimated =>
              /\ estimate_call.candidate \in 0..(Len(candidate_set) - 1)
              /\ pc = "start" =>
                    estimate_call.candidate = Len(conditional_te) - 1
              /\ estimate_call.shuffle = "none"
              /\ estimate_call.conditional.name = "temp_cond"
              /\ estimate_call.conditional.removed = estimate_call.candidate
        /\ SurrogateEstimated =>
              /\ estimate_call.candidate \in 0..(Len(candidate_set) - 1)
              /\ estimate_call.conditional.name = "_conditional_realisations"
              /\ estimate_call.conditional.removed = NoCandidate
        /\ n_tables <= 1
        /\ pc \in {"table", "scan", "unsort", "done"} =>
              /\ n_tables = 1
              /\ Len(stats_table) = Len(candidate_set)

\* the surrogate of the second of two candidates has just been estimated
C25_Witness ==
    /\ IsSequential
    /\ pc = "table"
    /\ Len(candidate_set) = 2
    /\ SurrogateEstimated
    /\ estimate_call.candidate = 1
    /\ n_estimate = 4

\* ------------------------------------------- the cells of the surrogate table
CellResults == {cell_results[k] : k \in 1..Len(cell_results)}

ResultsOfCell(row, col) ==
    {r \in CellResults : r.candidate = row /\ r.perm = col}

\* The table put together from the results as a set, whatever the order they
\* came in: a cell holds the value of its result, or the 0 of np.zeros
\* as long as it has none.
HoldsItsResult(table, row, col) ==
    IF ResultsOfCell(row, col) = {} THEN table[row + 1][col + 1] = 0
    ELSE \A r \in ResultsOfCell(row, col) :
            table[row + 1][col + 1] = r.value

OneTailedAgainst(null_distribution) ==
    _find_pvalue(te_candidate, Vector(null_distribution), DefaultAlpha,
                 "one")

\* C27: for one surrogate table and one observed value, the p-value against
\* the column minima is never larger than the p-value against the column
\* maxima, so a value significant in the maximum test is significant in the
\* minimum test: whichever of the two tests ran, the other one on its table
\* compares that way.
C27_MinPvalueAtMostMaxPvalue ==
    ExtremeStatisticReturned =>
        LET of_max == OneTailedAgainst(_find_table_max(stats_table))
            of_min == OneTailedAgainst(_find_table_min(stats_table))
        IN  /\ of_max.raised = "none"
            /\ of_min.raised = "none"
            /\ ret.pvalue = (IF proc = "max_statistic" THEN of_max.pvalue
                             ELSE of_min.pvalue)
            /\ of_min.pvalue.num * of_max.pvalue.den
                   <= of_max.pvalue.num * of_min.pvalue.den
            /\ of_max.significance => of_min.significance

\* observed 1: column minima 0 and 0 give p = 0, column maxima 2 and 1 give
\* p = 1/2, returned by max_statistic
C27_Witness ==
    /\ proc = "max_statistic"
    /\ pc = "done"
    /\ stats_table = <<<<0, 0>>, <<2, 1>>>>
    /\ te_candidate = 1
    /\ ~ret.significance
    /\ OneTailedAgainst(_find_table_min(stats_table)).significance

\* ------------------------------ max_statistic_sequential, estimates and scan
AllCells == Len(candidate_set) * n_permutations

\* C28: max_statistic_sequential makes its estimate calls before it looks at
\* any rank: first one leave-one-out estimate for every candidate, then, with
\* all of those made, one estimate for every cell of the surrogate table; no
\* rank is evaluated before the last cell is filled, and the scan makes no
\* estimate call, so a call that reaches the scan has made
\* n + n * n_permutations estimate calls wherever the scan stops.
C28_EstimatesBeforeScan ==
    IsSequential =>
        /\ pc = "start" =>
              /\ n_estimate = Len(conditional_te)
              /\ n_estimate <= Len(candidate_set)
              /\ n_permute = 0
              /\ evaluated = <<>>
        /\ pc = "table" =>
              /\ Len(conditional_te) = Len(candidate_set)
              /\ n_estimate = Len(candidate_set) + n_permute
              /\ n_permute = idx_c * n_permutations + perm
              /\ evaluated = <<>>
        /\ (pc \in {"scan", "unsort", "done"} \/ evaluated # <<>>) =>
              /\ n_estimate = Len(candidate_set) + AllCells
              /\ n_permute = AllCells

\* the scan stopped at the first of three ranks, after 3 + 3 * 2 estimates
C28_Witness ==
    /\ IsSequential
    /\ pc = "done"
    /\ Len(candidate_set) = 3
    /\ n_permutations = 2
    /\ Len(evaluated) = 1
    /\ n_estimate = 9

\* ----------------------------------------------- the grid of the p-values
IsMultipleOfOneNth(p, n) == \E k \in 0..n : IsQuotient(p, k, n)

NoneExceeds(d, s) == \A j \in 1..Len(d) : d[j] <= s

SequentialReturned ==
    /\ IsSequential
    /\ pc = "done"
    /\ ret.kind = "arrays"

\* the entries of the returned arrays
Entries == 1..Len(ret.pvalue)

\* the entries whose p-value is not below alpha
NotBelowAlpha == {k \in Entries : ~BelowDefaultAlpha(ret.pvalue[k])}

SignificantEntries == {k \in Entries : ret.significance[k]}

\* the evaluated ranks that came out significant: by the break, the ranks
\* evaluated before the first non-significant one
PassedRanks == {k \in 1..Len(evaluated) : evaluated[k].significance}

\* C30: the two arrays max_statistic_sequential returns have one entry for
\* every candidate; at most one entry has a p-value of alpha or more, the one
\* of the rank the scan stopped at; as many entries are significant as ranks
\* were evaluated before the first non-significant one; and every entry that
\* is not significant, the stopping rank aside, has p-value 0.
C30_OneStoppingRank ==
    SequentialReturned =>
        /\ Len(ret.pvalue) = Len(candidate_set)
        /\ Len(ret.significance) = Len(candidate_set)
        /\ Cardinality(NotBelowAlpha) <= 1
        /\ Cardinality(NotBelowAlpha) =
              Len(evaluated) - Cardinality(PassedRanks)
        /\ NotBelowAlpha \cap SignificantEntries = {}
        /\ Cardinality(SignificantEntries) = Cardinality(PassedRanks)
        /\ \A k \in Entries \ (SignificantEntries \cup NotBelowAlpha) :
              ret.pvalue[k].num = 0

\* of three ranks the first passed and the second stopped the scan
C30_Witness ==
    /\ SequentialReturned
    /\ Len(candidate_set) = 3
    /\ Len(evaluated) = 2
    /\ Cardinality(SignificantEntries) = 1
    /\ Cardinality(NotBelowAlpha) = 1

====
